---------------------------- MODULE Spec2Model ----------------------------
(***************************************************************************)
(* A model of src/asr/app.py: the /health and /transcribe handlers of the  *)
(* ASR service, the admission gate (transcribe_limiter), the scoped        *)
(* temporary file of a request, the worker threads that run the model      *)
(* call, and the single request-handling (event-loop) thread on which the  *)
(* handlers' coroutines run between two suspension points.                 *)
(***************************************************************************)
EXTENDS Integers, Sequences, FiniteSets, TLC

\* ------------------------------------------------------------- bounds
NumReqs == 3        \* requests a run may hold
MaxWorkers == 2     \* largest MAX_TRANSCRIBE_WORKERS an environment sets
MaxSegs == 1        \* most segments one model call yields
MaxJoin == 2        \* most segments a joined list holds
MaxSegLen == 2      \* most characters of a segment's text
MaxBeamLen == 2     \* most characters of the BEAM_SIZE variable
MaxClock == 3       \* last reading of the clock, in thirds of a millisecond

Reqs == 1..NumReqs
NoReq == 0
None == "<None>"    \* Python's None, where a string may stand

\* ------------------------------------------------------ configuration
\* Decimal digit strings are sequences of one-character strings.
DigitVal(c) ==
  CASE c = "0" -> 0 [] c = "1" -> 1 [] c = "2" -> 2 [] c = "3" -> 3 [] c = "4" -> 4
    [] c = "5" -> 5 [] c = "6" -> 6 [] c = "7" -> 7 [] c = "8" -> 8 [] c = "9" -> 9

Digits == {"0", "1", "2", "3", "4", "5", "6", "7", "8", "9"}

DigitOf(n) == CHOOSE c \in Digits : DigitVal(c) = n

\* int(s) of a string of decimal digits
RECURSIVE ParseDigits(_)
ParseDigits(s) ==
  IF Len(s) = 0 THEN 0
  ELSE 10 * ParseDigits(SubSeq(s, 1, Len(s) - 1)) + DigitVal(s[Len(s)])

\* An environment, and a query string, is a function from the names that are
\* set to their values.
NothingSet == [n \in {} |-> ""]

\* os.getenv(name, default)
getenv(env, name, default) == IF name \in DOMAIN env THEN env[name] ELSE default

\* The environments a process may start in: nothing set, or every variable set.
Envs ==
  { NothingSet }
  \cup
  { [WHISPER_MODEL |-> "base", DEVICE |-> "cuda", COMPUTE_TYPE |-> "float16",
     MAX_TRANSCRIBE_WORKERS |-> <<DigitOf(n)>>] : n \in 2..MaxWorkers }

MODEL_NAME_of(env) == getenv(env, "WHISPER_MODEL", "small")
DEVICE_of(env) == getenv(env, "DEVICE", "cpu")
COMPUTE_TYPE_of(env) == getenv(env, "COMPUTE_TYPE", "int8")
MAX_TRANSCRIBE_WORKERS_of(env) == ParseDigits(getenv(env, "MAX_TRANSCRIBE_WORKERS", <<"1">>))

\* ---------------------------------------------------------- beam size
\* Text is a sequence of one-character strings.
Whitespace == {" ", "\n"}

RECURSIVE lstrip(_)
lstrip(s) == IF Len(s) > 0 /\ s[1] \in Whitespace THEN lstrip(Tail(s)) ELSE s

RECURSIVE rstrip(_)
rstrip(s) ==
  IF Len(s) > 0 /\ s[Len(s)] \in Whitespace THEN rstrip(SubSeq(s, 1, Len(s) - 1)) ELSE s

\* str.strip()
strip(s) == rstrip(lstrip(s))

\* The result of a call that may raise ValueError.
Raised == [error |-> TRUE, value |-> 0]
Returned(v) == [error |-> FALSE, value |-> v]

\* The digits of an int literal, read left to right: single underscores may
\* stand between two digits. prev is "start", "digit" or "under".
RECURSIVE ScanDigits(_, _, _)
ScanDigits(s, acc, prev) ==
  IF Len(s) = 0 THEN (IF prev = "digit" THEN Returned(acc) ELSE Raised)
  ELSE IF s[1] \in Digits THEN ScanDigits(Tail(s), 10 * acc + DigitVal(s[1]), "digit")
  ELSE IF s[1] = "_" /\ prev = "digit" THEN ScanDigits(Tail(s), acc, "under")
  ELSE Raised

\* int(s) of a str: surrounding whitespace, a sign, digits.
py_int(s) ==
  LET t == strip(s) IN
  IF Len(t) = 0 THEN Raised
  ELSE IF t[1] = "-"
       THEN LET d == ScanDigits(Tail(t), 0, "start") IN
            IF d.error THEN Raised ELSE Returned(0 - d.value)
  ELSE IF t[1] = "+" THEN ScanDigits(Tail(t), 0, "start")
  ELSE ScanDigits(t, 0, "start")

\* BEAM_SIZE: None, or an int.
NoBeam == [unset |-> TRUE, value |-> 0]
Beam(n) == [unset |-> FALSE, value |-> n]

\* The import of the module ended (crashed: by an exception) with BEAM_SIZE = beam.
Imported(beam) == [crashed |-> FALSE, beam |-> beam]
Crashed == [crashed |-> TRUE, beam |-> NoBeam]

\* Lines 15-18 without the try: a ValueError ends the import.
beam_size_noexcept(env) ==
  IF "BEAM_SIZE" \notin DOMAIN env THEN Imported(NoBeam)
  ELSE IF Len(env["BEAM_SIZE"]) = 0 THEN Imported(NoBeam)
  ELSE LET n == py_int(env["BEAM_SIZE"]) IN
       IF n.error THEN Crashed ELSE Imported(Beam(n.value))

\* Lines 15-20: BEAM_SIZE_RAW = os.getenv("BEAM_SIZE"), then
\* int(BEAM_SIZE_RAW) if BEAM_SIZE_RAW else None, and None on a ValueError.
beam_size(env) ==
  IF "BEAM_SIZE" \notin DOMAIN env THEN Imported(NoBeam)
  ELSE IF Len(env["BEAM_SIZE"]) = 0 THEN Imported(NoBeam)
  ELSE LET n == py_int(env["BEAM_SIZE"]) IN
       IF n.error THEN Imported(NoBeam) ELSE Imported(Beam(n.value))

\* The values of BEAM_SIZE an environment may hold.
BeamChars == {"1", "2", "-", "+", " ", "_", "x"}
BeamStrings == UNION {[1..n -> BeamChars] : n \in 0..MaxBeamLen}
BeamEnvs == {NothingSet} \cup {[BEAM_SIZE |-> b] : b \in BeamStrings}

\* ------------------------------------------------------------- result
\* "".join(texts) with a separator between the texts.
RECURSIVE join_spaced(_)
join_spaced(texts) ==
  IF Len(texts) = 0 THEN <<>>
  ELSE IF Len(texts) = 1 THEN texts[1]
  ELSE texts[1] \o <<" ">> \o join_spaced(Tail(texts))

\* "".join(texts)
RECURSIVE join(_)
join(texts) == IF Len(texts) = 0 THEN <<>> ELSE texts[1] \o join(Tail(texts))

\* Line 68: "".join([seg.text for seg in segments]).strip()
joined_text(texts) == strip(join(texts))

\* The texts a segment may hold, and the lists of them.
TextChars == {" ", "\n", "a"}
SegTexts == UNION {[1..n -> TextChars] : n \in 0..MaxSegLen}
SegLists == UNION {[1..n -> SegTexts] : n \in 0..MaxJoin}

\* The clock counts thirds of a millisecond.
\* round(e, 3), in milliseconds, of an elapsed time e: the nearest millisecond.
round3(e) == (2 * e + 3) \div 6

\* ---------------------------------------------------------- temp files
\* The directory of temp files maps the names in use to the files' contents.
Names == 1..NumReqs
NoName == NoReq

\* A fixed path: every request writes the same file.
new_names_fixed(fs, r) == {1}

\* Line 56: NamedTemporaryFile picks a name that is the name of no file. The
\* name it picks for request r is called r here: a name picked earlier
\* and still in use is the name of another request.
new_names(fs, r) == {n \in Names \ DOMAIN fs : n = r}

\* A write that stays in the buffer of the file object: the file is there, empty.
WriteFileUnflushed(fs, n, data) == (n :> <<>>) @@ fs

\* A file is written and flushed, and removed.
WriteFile(fs, n, data) == (n :> data) @@ fs
RemoveFile(fs, n) == [m \in DOMAIN fs \ {n} |-> fs[m]]

\* ------------------------------------------------------------ requests
EmptyBody == <<>>
Bodies == {EmptyBody, <<"RIFF">>}
Absent == "<absent>"   \* a query parameter the client does not send
Languages == {Absent, "", "en", "xx"}
Tasks == {Absent, "", "transcribe", "translate", "bogus"}

Param(name, v) == IF v = Absent THEN NothingSet ELSE (name :> v)
Query(l, t) == Param("language", l) @@ Param("task", t)

\* request.query_params.get(name)
query_get(q, name) == IF name \in DOMAIN q THEN q[name] ELSE None

\* x or y, on the values a query parameter takes: None and "" are falsy.
OrElse(x, y) == IF x = None \/ x = "" THEN y ELSE x

\* `not body`, line 49
BodyMissing(b) == Len(b) = 0

\* The requests a client may send: without a query string, or with any.
PlainRequests == [body : Bodies, query : {Query(Absent, Absent)}]
AllRequests == [body : Bodies, query : {Query(l, t) : l \in Languages, t \in Tasks}]

\* ---------------------------------------------------- admission gate
\* anyio.Semaphore(n): a counter and the queue of suspended acquirers.
Semaphore(n) == [value |-> n, waiters |-> <<>>]

\* A gate that admits whatever its counter says.
CanAcquireAlways(sem) == TRUE

\* Semaphore.acquire_nowait succeeds
CanAcquire(sem) == sem.value > 0

\* A release that counts the permit and leaves the waiters suspended.
semaphore_release_nowake(sem) == [sem EXCEPT !.value = sem.value + 1]

\* A release that hands the permit to the longest waiter and counts it as free too.
semaphore_release_twice(sem) ==
  IF Len(sem.waiters) > 0
  THEN [sem EXCEPT !.waiters = Tail(sem.waiters), !.value = sem.value + 1]
  ELSE [sem EXCEPT !.value = sem.value + 1]

\* Semaphore.release: the permit goes to the longest waiter, if any.
semaphore_release(sem) ==
  IF Len(sem.waiters) > 0
  THEN [sem EXCEPT !.waiters = Tail(sem.waiters)]
  ELSE [sem EXCEPT !.value = sem.value + 1]

\* A release written after the call, not in a scoped block: skipped by an exception.
limiter_exit_leak(sem, raised) == IF raised THEN sem ELSE semaphore_release(sem)

\* The exit of `async with transcribe_limiter`, normal or by an exception.
limiter_exit(sem, raised) == semaphore_release(sem)

\* The waiters a step that turns the semaphore old into new has resumed.
Woken(old, new) ==
  IF Len(new.waiters) < Len(old.waiters) THEN {Head(old.waiters)} ELSE {}

\* ------------------------------------------------------- temp file
\* A file made with delete=False and unlinked by hand after the block.
tempfile_exit_leak(state, raised) == IF raised THEN state ELSE "deleted"

\* The exit of `with tempfile.NamedTemporaryFile(...)`, normal or by an exception.
tempfile_exit(state, raised) == "deleted"

VARIABLES
  environ,             \* os.environ as the process found it
  MODEL_NAME, DEVICE, COMPUTE_TYPE, MAX_TRANSCRIBE_WORKERS,  \* module globals, lines 11-14
  BEAM_SIZE,           \* module global, lines 17-20
  alive,               \* the import of the module ended without an exception
  transcribe_limiter,  \* the semaphore: [value, waiters]
  request,             \* request[r]: what client r sends
  pc,                  \* pc[r]: where r's handler is
  language, task,      \* the handler's locals of lines 53-54
  t0,                  \* t0[r]: the handler's local of line 52
  tmp,                 \* tmp[r]: r's temp file: "none", "empty", "full", "deleted"
  fname,               \* fname[r]: f.name, the name of r's temp file
  files,               \* the temp directory: the names in use and the files' contents
  created,             \* created[r]: temp files r's handler created
  calls,               \* calls[r]: model calls made for r
  args,                \* args[r]: the arguments of the model call under way for r
  segments,            \* segments[r]: the texts r's iterable has still to yield
  pending,             \* pending[r]: segments r's generator has still to produce
  parts,               \* parts[r]: the list line 68 builds
  info,                \* info[r]: info.language of r's model call
  status, detail,      \* the response of r: 0 while none
  response,            \* response[r]: the JSON body of a 200 response
  hist,                \* hist[r]: the steps r's handler has taken
  loop,                \* the request whose handler occupies the event-loop thread, or NoReq
  healthResp,          \* the last response of GET /health
  clock,               \* time.time(), in thirds of a millisecond
  join_call            \* a call of line 68's expression: its argument and result

cfgvars == <<environ, MODEL_NAME, DEVICE, COMPUTE_TYPE, MAX_TRANSCRIBE_WORKERS, BEAM_SIZE,
             alive>>
outside == <<clock, join_call>>
vars == <<environ, MODEL_NAME, DEVICE, COMPUTE_TYPE, MAX_TRANSCRIBE_WORKERS, BEAM_SIZE, alive,
          transcribe_limiter, request, pc, language, task, t0, tmp, fname, files, created,
          calls, args, segments, pending, parts, info, status, detail, response, hist, loop,
          healthResp, clock, join_call>>

NoResponse == [ok |-> FALSE, model |-> "", device |-> "", compute_type |-> ""]
NoResult == [text |-> <<>>, language |-> "", duration_sec |-> 0]
NoArgs == [path |-> NoName, language |-> None, task |-> None, vad_filter |-> FALSE,
           beam_size |-> NoBeam]
NoJoin == [texts |-> <<>>, done |-> FALSE, text |-> <<>>]

\* --------------------------------------------------------------- Init
\* Module import, lines 11-23, under environment env; the clients in active
\* hold the requests reqs. A process whose import crashed serves no request.
Boot(env, reqs, active) ==
  /\ environ = env
  /\ MODEL_NAME = MODEL_NAME_of(env)
  /\ DEVICE = DEVICE_of(env)
  /\ COMPUTE_TYPE = COMPUTE_TYPE_of(env)
  /\ MAX_TRANSCRIBE_WORKERS = MAX_TRANSCRIBE_WORKERS_of(env)
  /\ BEAM_SIZE = beam_size(env).beam
  /\ alive = ~beam_size(env).crashed
  /\ transcribe_limiter = Semaphore(MAX_TRANSCRIBE_WORKERS_of(env))
  /\ request = reqs
  /\ pc = [r \in Reqs |->
             IF r \in active /\ ~beam_size(env).crashed THEN "idle" ELSE "absent"]
  /\ language = [r \in Reqs |-> None]
  /\ task = [r \in Reqs |-> None]
  /\ t0 = [r \in Reqs |-> 0]
  /\ tmp = [r \in Reqs |-> "none"]
  /\ fname = [r \in Reqs |-> NoName]
  /\ files = NothingSet
  /\ created = [r \in Reqs |-> 0]
  /\ calls = [r \in Reqs |-> 0]
  /\ args = [r \in Reqs |-> NoArgs]
  /\ segments = [r \in Reqs |-> <<>>]
  /\ pending = [r \in Reqs |-> 0]
  /\ parts = [r \in Reqs |-> <<>>]
  /\ info = [r \in Reqs |-> ""]
  /\ status = [r \in Reqs |-> 0]
  /\ detail = [r \in Reqs |-> ""]
  /\ response = [r \in Reqs |-> NoResult]
  /\ hist = [r \in Reqs |-> <<>>]
  /\ loop = NoReq
  /\ healthResp = NoResponse
  /\ clock = 0

Startup(env, reqs, active) == Boot(env, reqs, active) /\ join_call = NoJoin

Init == \E env \in Envs : \E reqs \in [Reqs -> PlainRequests] : Startup(env, reqs, Reqs)

\* ------------------------------------------------------------ actions
\* The handler of r moves to pc p and logs the steps in log; the requests in
\* woken leave the semaphore's queue holding a permit.
Moved(r, p, log, woken) ==
  /\ pc' = [q \in Reqs |-> IF q = r THEN p ELSE IF q \in woken THEN "acquired" ELSE pc[q]]
  /\ hist' = [q \in Reqs |-> IF q = r THEN hist[q] \o log
                             ELSE IF q \in woken THEN Append(hist[q], "acquire")
                             ELSE hist[q]]

\* The response of r: a status and, for a failure, its detail.
Responded(r, code, why) ==
  /\ status' = [status EXCEPT ![r] = code]
  /\ detail' = [detail EXCEPT ![r] = why]

\* The with block of line 56 is left, by an exception or not: the file object
\* of r is closed, which deletes the file of its name.
CloseFile(r, raised) ==
  /\ tmp' = [tmp EXCEPT ![r] = tempfile_exit(tmp[r], raised)]
  /\ files' = IF tempfile_exit(tmp[r], raised) = "deleted"
              THEN RemoveFile(files, fname[r]) ELSE files
  /\ fname' = [fname EXCEPT ![r] = NoName]

\* An empty body raised as a plain error, which the framework answers with 500.
RejectEmptyAs500(r) ==
  /\ loop = NoReq
  /\ pc[r] = "idle"
  /\ BodyMissing(request[r].body)
  /\ Moved(r, "done", <<>>, {})
  /\ Responded(r, 500, "Internal Server Error")
  /\ UNCHANGED <<cfgvars, transcribe_limiter, request, language, task, tmp, created,
                 calls, pending, loop, healthResp, t0, fname, files, args, segments,
                 parts, info, response, outside>>

\* An empty body checked inside the with block, after the temp file was made.
RejectEmptyAfterTemp(r) ==
  /\ loop = NoReq
  /\ pc[r] = "idle"
  /\ BodyMissing(request[r].body)
  /\ tmp' = [tmp EXCEPT ![r] = "deleted"]
  /\ created' = [created EXCEPT ![r] = created[r] + 1]
  /\ Moved(r, "done", <<"create", "delete">>, {})
  /\ Responded(r, 400, "empty body")
  /\ UNCHANGED <<cfgvars, transcribe_limiter, request, language, task,
                 calls, pending, loop, healthResp, t0, fname, files, args, segments,
                 parts, info, response, outside>>

\* Lines 48-50: the body is read and is empty: HTTPException(400, "empty body").
RejectEmpty(r) ==
  /\ loop = NoReq
  /\ pc[r] = "idle"
  /\ BodyMissing(request[r].body)
  /\ Moved(r, "done", <<>>, {})
  /\ Responded(r, 400, "empty body")
  /\ UNCHANGED <<cfgvars, transcribe_limiter, request, language, task, tmp, created,
                 calls, pending, loop, healthResp, t0, fname, files, args, segments,
                 parts, info, response, outside>>

\* Lines 48-60: the body is read and is not empty; the clock and the query
\* parameters are read, the temp file is created under a new name, written and
\* flushed, and Semaphore.acquire takes a free permit or queues the handler.
\* Either way the handler suspends there and the event loop runs other tasks.
EnterGate(r) ==
  /\ loop = NoReq
  /\ pc[r] = "idle"
  /\ ~BodyMissing(request[r].body)
  /\ t0' = [t0 EXCEPT ![r] = clock]
  /\ language' = [language EXCEPT ![r] = OrElse(query_get(request[r].query, "language"), None)]
  /\ task' = [task EXCEPT ![r] = OrElse(query_get(request[r].query, "task"), "transcribe")]
  /\ \E n \in new_names(files, r) :
       /\ fname' = [fname EXCEPT ![r] = n]
       /\ files' = WriteFile(files, n, request[r].body)
  /\ tmp' = [tmp EXCEPT ![r] = "full"]
  /\ created' = [created EXCEPT ![r] = created[r] + 1]
  /\ IF CanAcquire(transcribe_limiter)
     THEN /\ transcribe_limiter' =
               [transcribe_limiter EXCEPT !.value = transcribe_limiter.value - 1]
          /\ Moved(r, "acquired", <<"create", "write", "acquire">>, {})
     ELSE /\ transcribe_limiter' =
               [transcribe_limiter EXCEPT !.waiters = Append(transcribe_limiter.waiters, r)]
          /\ Moved(r, "waiting", <<"create", "write", "wait">>, {})
  /\ UNCHANGED <<cfgvars, request, calls, pending, status, detail, loop,
                 healthResp, args, segments, parts, info, response, outside>>

\* Lines 48-58: the body is read and is not empty, and writing it to the temp
\* file raises (the disk is full): the with block of line 56 is left.
WriteFails(r) ==
  /\ loop = NoReq
  /\ pc[r] = "idle"
  /\ ~BodyMissing(request[r].body)
  /\ language' = [language EXCEPT ![r] = OrElse(query_get(request[r].query, "language"), None)]
  /\ task' = [task EXCEPT ![r] = OrElse(query_get(request[r].query, "task"), "transcribe")]
  /\ tmp' = [tmp EXCEPT ![r] = tempfile_exit("empty", TRUE)]
  /\ \E n \in new_names(files, r) :
       files' = IF tempfile_exit("empty", TRUE) = "deleted"
                THEN files ELSE WriteFile(files, n, <<>>)
  /\ created' = [created EXCEPT ![r] = created[r] + 1]
  /\ Moved(r, "done", <<"create", "delete">>, {})
  /\ Responded(r, 500, "Internal Server Error")
  /\ UNCHANGED <<cfgvars, transcribe_limiter, request, calls, pending, loop,
                 healthResp, t0, fname, args, segments, parts, info, response, outside>>

\* Lines 26-33: the arguments _run_transcribe gives model.transcribe.
RunArgs(path, lang, tsk) ==
  [path |-> path, language |-> OrElse(lang, None), task |-> OrElse(tsk, "transcribe"),
   vad_filter |-> TRUE, beam_size |-> BEAM_SIZE]

\* Lines 61-66: to_thread.run_sync hands _run_transcribe to a worker thread
\* and the handler suspends until the worker is done.
Dispatch(r) ==
  /\ loop = NoReq
  /\ pc[r] = "acquired"
  /\ calls' = [calls EXCEPT ![r] = calls[r] + 1]
  /\ args' = [args EXCEPT ![r] = RunArgs(fname[r], language[r], task[r])]
  /\ Moved(r, "calling", <<"model_start">>, {})
  /\ UNCHANGED <<cfgvars, transcribe_limiter, request, language, task, tmp, created,
                 pending, status, detail, loop, healthResp, t0, fname, files, segments,
                 parts, info, response, outside>>

\* Lines 26-33, on the worker thread: model.transcribe returns (segments,
\* info); segments is an iterable that has still to compute the texts
\* out.segments, and info.language is out.language.
ModelReturns(r, out) ==
  /\ pc[r] = "calling"
  /\ segments' = [segments EXCEPT ![r] = out.segments]
  /\ pending' = [pending EXCEPT ![r] = Len(out.segments)]
  /\ info' = [info EXCEPT ![r] = out.language]
  /\ args' = [args EXCEPT ![r] = NoArgs]
  /\ Moved(r, "returned", <<"model_end">>, {})
  /\ UNCHANGED <<cfgvars, transcribe_limiter, request, language, task, tmp, created,
                 calls, status, detail, loop, healthResp, t0, fname, files,
                 parts, response, outside>>

\* Lines 26-33, on the worker thread: model.transcribe raises.
ModelRaises(r) ==
  /\ pc[r] = "calling"
  /\ args' = [args EXCEPT ![r] = NoArgs]
  /\ Moved(r, "raised", <<"model_raise">>, {})
  /\ UNCHANGED <<cfgvars, transcribe_limiter, request, language, task, tmp, created,
                 calls, pending, status, detail, loop, healthResp, t0, fname, files,
                 segments, parts, info, response, outside>>

\* Lines 61-66: the handler resumes with the worker's result and leaves the
\* async with block; it goes on to line 68 without suspending.
ResumeReturned(r) ==
  /\ loop = NoReq
  /\ pc[r] = "returned"
  /\ transcribe_limiter' = limiter_exit(transcribe_limiter, FALSE)
  /\ loop' = r
  /\ Moved(r, "join", <<"release">>, Woken(transcribe_limiter, transcribe_limiter'))
  /\ UNCHANGED <<cfgvars, request, language, task, tmp, created,
                 calls, pending, status, detail, healthResp, t0, fname, files, args,
                 segments, parts, info, response, outside>>

\* The worker's exception caught and answered with an empty result.
ResumeRaisedSwallow(r) ==
  /\ loop = NoReq
  /\ pc[r] = "raised"
  /\ transcribe_limiter' = limiter_exit(transcribe_limiter, TRUE)
  /\ CloseFile(r, FALSE)
  /\ Moved(r, "done", <<"release", "assemble", "delete", "respond">>,
           Woken(transcribe_limiter, transcribe_limiter'))
  /\ Responded(r, 200, "")
  /\ UNCHANGED <<cfgvars, request, language, task, created,
                 calls, pending, loop, healthResp, t0, args, segments, parts, info,
                 response, outside>>

\* Lines 61-66: the handler resumes with the worker's exception, which leaves
\* the async with block, the with block and the handler.
ResumeRaised(r) ==
  /\ loop = NoReq
  /\ pc[r] = "raised"
  /\ transcribe_limiter' = limiter_exit(transcribe_limiter, TRUE)
  /\ CloseFile(r, TRUE)
  /\ Moved(r, "done", <<"release", "delete">>, Woken(transcribe_limiter, transcribe_limiter'))
  /\ Responded(r, 500, "Internal Server Error")
  /\ UNCHANGED <<cfgvars, request, language, task, created,
                 calls, pending, loop, healthResp, t0, args, segments, parts, info,
                 response, outside>>

\* Line 68: the list comprehension takes the next segment from the iterable,
\* which computes it, on the thread the handler runs on, and keeps its text.
NextSegment(r) ==
  /\ loop = r
  /\ pc[r] = "join"
  /\ pending[r] > 0
  /\ pending' = [pending EXCEPT ![r] = pending[r] - 1]
  /\ parts' = [parts EXCEPT ![r] = Append(parts[r], Head(segments[r]))]
  /\ segments' = [segments EXCEPT ![r] = Tail(segments[r])]
  /\ UNCHANGED <<cfgvars, transcribe_limiter, request, pc, language, task, tmp, created,
                 calls, status, detail, hist, loop, healthResp, t0, fname, files, args,
                 info, response, outside>>

\* Line 68: computing the next segment raises; the with block and the
\* handler are left.
SegmentRaises(r) ==
  /\ loop = r
  /\ pc[r] = "join"
  /\ pending[r] > 0
  /\ CloseFile(r, TRUE)
  /\ parts' = [parts EXCEPT ![r] = <<>>]
  /\ loop' = NoReq
  /\ Moved(r, "done", <<"delete">>, {})
  /\ Responded(r, 500, "Internal Server Error")
  /\ UNCHANGED <<cfgvars, transcribe_limiter, request, language, task, created,
                 calls, pending, healthResp, t0, args, segments, info, response, outside>>

\* Lines 70-74: the result, from the list of line 68, the info of the model
\* call and the clock.
Result(r) ==
  [text |-> joined_text(parts[r]), language |-> info[r],
   duration_sec |-> round3(clock - t0[r])]

\* Line 68 written after the with block: the file is deleted, then the text joined.
RespondDeleteFirst(r) ==
  /\ loop = r
  /\ pc[r] = "join"
  /\ pending[r] = 0
  /\ CloseFile(r, FALSE)
  /\ response' = [response EXCEPT ![r] = Result(r)]
  /\ parts' = [parts EXCEPT ![r] = <<>>]
  /\ t0' = [t0 EXCEPT ![r] = 0]
  /\ loop' = NoReq
  /\ Moved(r, "done", <<"delete", "assemble", "respond">>, {})
  /\ Responded(r, 200, "")
  /\ UNCHANGED <<cfgvars, transcribe_limiter, request, language, task, created,
                 calls, pending, healthResp, args, segments, info, outside>>

\* Lines 68-74: the iterable is exhausted; the texts are joined and stripped,
\* the with block of line 56 ends, which deletes the file, the clock is read
\* and the result is returned.
Respond(r) ==
  /\ loop = r
  /\ pc[r] = "join"
  /\ pending[r] = 0
  /\ CloseFile(r, FALSE)
  /\ response' = [response EXCEPT ![r] = Result(r)]
  /\ parts' = [parts EXCEPT ![r] = <<>>]
  /\ t0' = [t0 EXCEPT ![r] = 0]
  /\ loop' = NoReq
  /\ Moved(r, "done", <<"assemble", "delete", "respond">>, {})
  /\ Responded(r, 200, "")
  /\ UNCHANGED <<cfgvars, transcribe_limiter, request, language, task, created,
                 calls, pending, healthResp, args, segments, info, outside>>

\* The record with two of its fields taken from each other's global.
HealthRecordSwapped(m, d, c) == [ok |-> TRUE, model |-> m, device |-> c, compute_type |-> d]

\* Lines 38-43: the record /health returns.
HealthRecord(m, d, c) == [ok |-> TRUE, model |-> m, device |-> d, compute_type |-> c]

\* Lines 36-43: GET /health, served when the event-loop thread is free.
health ==
  /\ alive
  /\ loop = NoReq
  /\ healthResp' = HealthRecord(MODEL_NAME, DEVICE, COMPUTE_TYPE)
  /\ UNCHANGED <<cfgvars, transcribe_limiter, request, pc, language, task, tmp, created,
                 calls, pending, status, detail, hist, loop, t0, fname, files, args,
                 segments, parts, info, response, outside>>

\* The steps of the handler of POST /transcribe for request r.
transcribe(r) ==
  \/ RejectEmpty(r)
  \/ EnterGate(r)
  \/ WriteFails(r)
  \/ Dispatch(r)
  \/ ResumeReturned(r)
  \/ ResumeRaised(r)
  \/ NextSegment(r)
  \/ SegmentRaises(r)
  \/ Respond(r)

\* What a model call may return when the texts are left out: up to MaxSegs
\* segments of empty text, in a language.
PlainOutputs ==
  {[segments |-> [i \in 1..k |-> <<>>], language |-> "en"] : k \in 0..MaxSegs}

\* The steps of the worker thread that runs _run_transcribe for request r,
\* with a model that returns one of outs or raises.
run_transcribe_on(r, outs) ==
  \/ \E out \in outs : ModelReturns(r, out)
  \/ ModelRaises(r)

\* The steps of the worker thread that runs _run_transcribe for request r.
run_transcribe(r) == run_transcribe_on(r, PlainOutputs)

\* The steps of the program while clients post to /transcribe only.
Next ==
  \/ \E r \in Reqs : transcribe(r)
  \/ \E r \in Reqs : run_transcribe(r)

Spec == Init /\ [][Next]_vars

\* The program where the last client sends an empty body and every other one
\* sends audio, under a fair scheduler: the event loop does not leave every
\* ready handler unrun for ever, nor do the worker threads stop.
InitFair ==
  \E env \in Envs : \E reqs \in [Reqs -> PlainRequests] :
    /\ \A r \in Reqs : BodyMissing(reqs[r].body) <=> r = NumReqs
    /\ Startup(env, reqs, Reqs)

FairSpec ==
  /\ InitFair
  /\ [][Next]_vars
  /\ WF_vars(\E r \in Reqs : transcribe(r))
  /\ WF_vars(\E r \in Reqs : run_transcribe(r))

\* The program where a client also asks for /health, at any time.
NextHealth ==
  \/ Next
  \/ health

SpecHealth == InitFair /\ [][NextHealth]_vars

\* The same program where the first client sends an empty body with any query
\* string, and the others send audio without one.
InitQuery ==
  \E env \in Envs : \E reqs \in [Reqs -> AllRequests] :
    /\ BodyMissing(reqs[1].body)
    /\ \A r \in Reqs \ {1} : reqs[r] \in PlainRequests /\ ~BodyMissing(reqs[r].body)
    /\ Startup(env, reqs, Reqs)

SpecQuery == InitQuery /\ [][Next]_vars

\* ============================================================ properties
Range(f) == {f[i] : i \in DOMAIN f}

\* The requests that hold a permit: inside the async with block of line 60.
Holders == {r \in Reqs : pc[r] \in {"acquired", "calling", "returned", "raised"}}

\* The transcription computation of r is under way: from the start of the
\* model call until the last segment has been produced.
Computing(r) ==
  \/ pc[r] = "calling"
  \/ pc[r] \in {"returned", "join"} /\ pending[r] > 0

\* The model call of r raised.
ModelRaised(r) == "model_raise" \in Range(hist[r])

\* r has its response.
Done(r) == pc[r] = "done"

\* C1: in every reachable state the number of transcription computations under
\* way (model call started, last segment not yet produced) is at most
\* MAX_TRANSCRIBE_WORKERS.
C1_ConcurrencyBound ==
  Cardinality({r \in Reqs : Computing(r)}) <= MAX_TRANSCRIBE_WORKERS

\* C1's case: with capacity 2, one request computes its segments on line 68,
\* another is inside the model call, and a third holds the permit just released.
C1_Witness ==
  /\ MAX_TRANSCRIBE_WORKERS = 2
  /\ \E a, b, c \in Reqs :
       /\ pc[a] = "join" /\ pending[a] > 0
       /\ pc[b] = "calling"
       /\ pc[c] = "acquired"

\* C2: once a request whose model call raised has finished, no permit is
\* lost: the free permits and the permits held add up to the capacity, so when
\* nothing holds a permit all of them are free again.
C2_PermitReleasedOnRaise ==
  (\E r \in Reqs : Done(r) /\ ModelRaised(r)) =>
    transcribe_limiter.value + Cardinality(Holders) = MAX_TRANSCRIBE_WORKERS

\* C2's case: with capacity 1, a request whose model call raised has finished
\* and a request that queued behind it is now inside its own model call.
C2_Witness ==
  /\ MAX_TRANSCRIBE_WORKERS = 1
  /\ \E r, q \in Reqs :
       /\ Done(r) /\ ModelRaised(r) /\ status[r] = 500
       /\ pc[q] = "calling" /\ "wait" \in Range(hist[q])
       /\ \A o \in Reqs \ {r, q} : pc[o] = "idle"

\* C3: a request with an empty body ends with status 400 and detail "empty
\* body", whatever its query string and whatever the state of the gate.
C3_EmptyBodyRejected ==
  \A r \in Reqs :
    (Done(r) /\ BodyMissing(request[r].body)) =>
      (status[r] = 400 /\ detail[r] = "empty body")

\* C3's case: an empty request with an unrecognised language and task has been
\* rejected, and the gate is full with a waiter.
C3_Witness ==
  /\ Done(1) /\ status[1] = 400
  /\ request[1].query = Query("xx", "bogus")
  /\ transcribe_limiter.value = 0
  /\ Len(transcribe_limiter.waiters) > 0

\* C4: a request with an empty body never creates a temp file, never calls
\* the model and never queues on the gate, and the step that rejects it leaves
\* the gate, the temp files and the model calls as they were.
C4_EmptyTouchesNothing ==
  /\ [](\A r \in Reqs :
          BodyMissing(request[r].body) =>
            /\ created[r] = 0 /\ calls[r] = 0 /\ tmp[r] = "none"
            /\ r \notin Range(transcribe_limiter.waiters)
            /\ r \notin Holders)
  /\ [][\A r \in Reqs :
          (BodyMissing(request[r].body) /\ pc'[r] # pc[r]) =>
            UNCHANGED <<transcribe_limiter, tmp, created, calls>>]_vars

\* C4's case: the empty request has been rejected while one request holds the
\* only permit, every other one waits, and their temp files exist.
C4_Witness ==
  /\ Done(1) /\ BodyMissing(request[1].body)
  /\ MAX_TRANSCRIBE_WORKERS = 1
  /\ transcribe_limiter.value = 0
  /\ Len(transcribe_limiter.waiters) = NumReqs - 2
  /\ \A r \in Reqs \ {1} : tmp[r] = "full"

\* C5: a request with a body creates one temp file, the file is gone once the
\* request has its response, however it ended, and no file is left when no
\* request is in flight.
C5_TempFileScoped ==
  /\ \A r \in Reqs :
       /\ created[r] <= 1
       /\ Done(r) => tmp[r] \in {"none", "deleted"}
       /\ (Done(r) /\ ~BodyMissing(request[r].body)) => (created[r] = 1 /\ tmp[r] = "deleted")
  /\ (\A r \in Reqs : pc[r] \in {"idle", "absent", "done"}) =>
       (\A r \in Reqs : tmp[r] \notin {"empty", "full"})

\* C5's case: three requests have failed, one in the write, one in the model
\* call and one while its segments were consumed.
C5_Witness ==
  \E a, b, c \in Reqs :
    /\ Done(a) /\ status[a] = 500 /\ calls[a] = 0 /\ created[a] = 1
    /\ Done(b) /\ status[b] = 500 /\ ModelRaised(b)
    /\ Done(c) /\ status[c] = 500 /\ pending[c] > 0

\* C6: the model is called at most once for a request; a request whose model
\* call raised ends with status 500; and status 200 is given only after a model
\* call that returned and whose segments were all consumed.
C6_NoPartialResult ==
  \A r \in Reqs :
    /\ calls[r] <= 1
    /\ (Done(r) /\ ModelRaised(r)) => status[r] = 500
    /\ status[r] = 200 =>
         /\ calls[r] = 1
         /\ "model_end" \in Range(hist[r])
         /\ ~ModelRaised(r)
         /\ pending[r] = 0

\* C6's case: one request's model call raised and it got 500, another's
\* returned and it got 200.
C6_Witness ==
  \E a, b \in Reqs :
    /\ Done(a) /\ ModelRaised(a) /\ status[a] = 500 /\ calls[a] = 1
    /\ Done(b) /\ status[b] = 200

\* C7: the transcription computation of a request never runs on the
\* request-handling thread: no request is computing while its handler
\* occupies the event-loop thread.
C7_ComputeOffLoop == \A r \in Reqs : Computing(r) => loop # r

\* C8: under fair scheduling every request with a body ends with status 200
\* or 500.
C8_NoHang ==
  \A r \in Reqs :
    (pc[r] = "idle" /\ ~BodyMissing(request[r].body)) ~>
      (Done(r) /\ status[r] \in {200, 500})

\* C8's case: every request has ended and, with capacity 1, every request
\* with a body but one had to wait on the gate.
C8_Witness ==
  /\ MAX_TRANSCRIBE_WORKERS = 1
  /\ \A r \in Reqs : Done(r) /\ (~BodyMissing(request[r].body) => status[r] \in {200, 500})
  /\ Cardinality({r \in Reqs : "wait" \in Range(hist[r])}) = NumReqs - 2

\* C9: every response of /health is {ok: true} with the model name, the
\* device and the compute type the environment gave at process start; no step
\* changes the configuration, and a step that answers /health changes nothing
\* else.
C9_HealthReportsStartup ==
  /\ [](healthResp \in
          {NoResponse,
           [ok |-> TRUE, model |-> MODEL_NAME_of(environ), device |-> DEVICE_of(environ),
            compute_type |-> COMPUTE_TYPE_of(environ)]})
  /\ [][/\ UNCHANGED cfgvars
        /\ healthResp' # healthResp =>
             UNCHANGED <<transcribe_limiter, request, pc, language, task, tmp, created,
                         calls, pending, status, detail, hist, loop, t0, fname, files,
                         args, segments, parts, info, response, clock>>]_vars

\* C9's case: /health has answered with a configured (non-default) record
\* after requests that succeeded, failed and were rejected.
C9_Witness ==
  /\ healthResp = [ok |-> TRUE, model |-> "base", device |-> "cuda",
                   compute_type |-> "float16"]
  /\ \E a, b, c \in Reqs :
       /\ status[a] = 200
       /\ status[b] = 500
       /\ status[c] = 400

\* The place of a step in the pipeline of a request.
StepRank(x) ==
  CASE x = "create" -> 1
    [] x = "write" -> 2
    [] x = "wait" -> 3
    [] x = "acquire" -> 4
    [] x = "model_start" -> 5
    [] x \in {"model_end", "model_raise"} -> 6
    [] x = "release" -> 7
    [] x = "assemble" -> 8
    [] x = "delete" -> 9
    [] x = "respond" -> 10

\* Each step of h is later in the pipeline than the step before it.
Ordered(h) == \A i \in 1..(Len(h) - 1) : StepRank(h[i]) < StepRank(h[i + 1])

NotWait(x) == x # "wait"

FullPath ==
  <<"create", "write", "acquire", "model_start", "model_end", "release", "assemble",
    "delete", "respond">>

\* C10: the steps a request has taken are in the order write, acquire, model
\* call, release, assemble, delete, respond, and a request answered with 200
\* has taken every one of them, once.
C10_StepOrder ==
  \A r \in Reqs :
    /\ Ordered(hist[r])
    /\ status[r] = 200 => SelectSeq(hist[r], NotWait) = FullPath

\* C10's case: a request that had to wait on the gate was answered with 200.
C10_Witness ==
  \E r \in Reqs : status[r] = 200 /\ "wait" \in Range(hist[r]) /\ Len(hist[r]) = 10


\* How often step x is in the log h.
Count(h, x) == Len(SelectSeq(h, LAMBDA y : y = x))

\* The permits request r has acquired and not released.
Held(r) == Count(hist[r], "acquire") - Count(hist[r], "release")

RECURSIVE SumHeld(_)
SumHeld(rs) ==
  IF rs = {} THEN 0
  ELSE LET r == CHOOSE q \in rs : TRUE IN Held(r) + SumHeld(rs \ {r})

\* C14: permits are conserved. The free permits and the permits requests
\* hold add up to the configured number, the free ones are between 0 and
\* that number, no request holds more than one, none has released more than
\* it acquired, and a request holds one exactly while it is between its
\* acquire and its release.
C14_PermitsConserved ==
  /\ transcribe_limiter.value + SumHeld(Reqs) = MAX_TRANSCRIBE_WORKERS
  /\ transcribe_limiter.value >= 0
  /\ transcribe_limiter.value <= MAX_TRANSCRIBE_WORKERS
  /\ \A r \in Reqs :
       LET n == Held(r)
       IN /\ n \in {0, 1}
          /\ n = 1 <=> r \in Holders
          /\ pc[r] = "waiting" => n = 0

\* C14's case: every permit of a gate of more than one is held and a request
\* waits for one.
C14_Witness ==
  /\ MAX_TRANSCRIBE_WORKERS > 1
  /\ transcribe_limiter.value = 0
  /\ Cardinality({r \in Reqs : Held(r) = 1}) = MAX_TRANSCRIBE_WORKERS
  /\ \E r \in Reqs : pc[r] = "waiting"

\* ------------------------------------------------------------ text
\* Line 68 applied to a list of segment texts: the call returns.
ApplyJoin ==
  /\ ~join_call.done
  /\ join_call' = [join_call EXCEPT !.done = TRUE, !.text = joined_text(join_call.texts)]
  /\ UNCHANGED <<cfgvars, transcribe_limiter, request, pc, language, task, tmp, created,
                 calls, pending, status, detail, hist, loop, healthResp, t0, fname, files,
                 args, segments, parts, info, response, clock>>

\* Line 68 on its own: a process without clients, and any list of segment texts.
InitText ==
  /\ Boot(NothingSet, [r \in Reqs |-> [body |-> EmptyBody, query |-> NothingSet]], {})
  /\ \E texts \in SegLists : join_call = [NoJoin EXCEPT !.texts = texts]

SpecText == InitText /\ [][ApplyJoin]_vars

\* The length of the first i texts together.
RECURSIVE LenUpTo(_, _)
LenUpTo(texts, i) == IF i = 0 THEN 0 ELSE LenUpTo(texts, i - 1) + Len(texts[i])

\* The p-th character of the texts read one after the other.
CharAt(texts, p) ==
  LET i == CHOOSE j \in 1..Len(texts) : LenUpTo(texts, j - 1) < p /\ p <= LenUpTo(texts, j)
  IN texts[i][p - LenUpTo(texts, i - 1)]

\* out is the characters a+1..b of the texts read one after the other, and
\* what is left out before and after is whitespace only.
IsStrippedRun(texts, out, a, b) ==
  /\ Len(out) = b - a
  /\ \A p \in 1..Len(out) : out[p] = CharAt(texts, a + p)
  /\ \A p \in 1..a : CharAt(texts, p) \in Whitespace
  /\ \A p \in (b + 1)..LenUpTo(texts, Len(texts)) : CharAt(texts, p) \in Whitespace

\* C11: the text of a result is the segment texts in the order produced,
\* with nothing between them and none dropped, doubled or moved, less the
\* whitespace at the start and the end of the whole: it neither starts nor
\* ends with whitespace, and it is empty when there are no segments.
C11_TextIsStrippedConcat ==
  join_call.done =>
    LET texts == join_call.texts
        out == join_call.text
        n == LenUpTo(texts, Len(texts))
    IN /\ \E a \in 0..n : \E b \in a..n : IsStrippedRun(texts, out, a, b)
       /\ Len(out) > 0 => out[1] \notin Whitespace /\ out[Len(out)] \notin Whitespace
       /\ Len(texts) = 0 => out = <<>>

\* C11's case: two segments with whitespace at the start of each; the one at
\* the start of the whole is dropped and the one between them is kept.
C11_Witness ==
  /\ join_call.done
  /\ join_call.texts = << <<" ", "a">>, <<"\n", "a">> >>
  /\ join_call.text = <<"a", "\n", "a">>

\* ------------------------------------------------------------ clock
\* time.time() is the system's wall clock: it goes forward as time passes,
\* and it goes back when the system clock is set back (by an administrator or
\* by a time synchronisation step).
Tick ==
  /\ clock < MaxClock
  /\ clock' = clock + 1
  /\ UNCHANGED <<cfgvars, transcribe_limiter, request, pc, language, task, tmp, created,
                 calls, pending, status, detail, hist, loop, healthResp, t0, fname, files,
                 args, segments, parts, info, response, join_call>>

ClockSetBack ==
  /\ \E c \in 0..(clock - 1) : clock' = c
  /\ UNCHANGED <<cfgvars, transcribe_limiter, request, pc, language, task, tmp, created,
                 calls, pending, status, detail, hist, loop, healthResp, t0, fname, files,
                 args, segments, parts, info, response, join_call>>

\* What a model call may return when the texts are left out: segments of
\* empty text, in one of two languages.
ReportedLanguages == {"en", "de"}
LangOutputs ==
  {[segments |-> [i \in 1..k |-> <<>>], language |-> l] :
     k \in 0..MaxSegs, l \in ReportedLanguages}

\* The program with one worker where the first two clients send audio and the
\* last one an empty body, while the clock runs.
InitClock ==
  \E reqs \in [Reqs -> PlainRequests] :
    /\ \A r \in Reqs : BodyMissing(reqs[r].body) <=> r = NumReqs
    /\ Startup(NothingSet, reqs, {1, 2, NumReqs})

NextClock ==
  \/ \E r \in Reqs : transcribe(r)
  \/ \E r \in Reqs : run_transcribe_on(r, LangOutputs)
  \/ Tick
  \/ ClockSetBack

SpecClock == InitClock /\ [][NextClock]_vars

\* C12: a request answered with 200 reports a duration that is not negative,
\* and the language its model call reported.
C12_DurationAndLanguage ==
  \A r \in Reqs :
    status[r] = 200 =>
      /\ response[r].duration_sec >= 0
      /\ response[r].language = info[r]
      /\ response[r].language \in ReportedLanguages

\* ------------------------------------------------------------- beam
\* The program under an environment that may set BEAM_SIZE (to any short
\* string), where the first client sends audio and the last an empty body.
InitBeam ==
  \E env \in BeamEnvs : \E reqs \in [Reqs -> PlainRequests] :
    /\ \A r \in Reqs : BodyMissing(reqs[r].body) <=> r = NumReqs
    /\ Startup(env, reqs, {1, NumReqs})

SpecBeam == InitBeam /\ [][Next]_vars

\* The parts of s with nothing but whitespace before and after them.
Cores(s) ==
  {SubSeq(s, p[1], p[2]) :
     p \in {q \in (1..Len(s)) \X (1..Len(s)) :
              /\ q[1] <= q[2]
              /\ \A k \in (1..(q[1] - 1)) \cup ((q[2] + 1)..Len(s)) : s[k] \in Whitespace}}

\* d is digits, with single underscores between digits allowed.
IsDigitRun(d) ==
  /\ Len(d) > 0
  /\ \A p \in 1..Len(d) : d[p] \in Digits \cup {"_"}
  /\ d[1] \in Digits /\ d[Len(d)] \in Digits
  /\ \A p \in 1..(Len(d) - 1) : ~(d[p] = "_" /\ d[p + 1] = "_")

\* c is an integer literal: a digit run, with a sign before it or not.
IsLiteral(c) == IsDigitRun(c) \/ (c[1] \in {"+", "-"} /\ IsDigitRun(Tail(c)))

\* The number the digits of d are, in base ten.
RECURSIVE Decimal(_)
Decimal(d) ==
  IF Len(d) = 0 THEN 0
  ELSE LET front == Decimal(SubSeq(d, 1, Len(d) - 1)) IN
       IF d[Len(d)] \in Digits THEN 10 * front + DigitVal(d[Len(d)]) ELSE front

\* The integers s is a literal of: none, or one.
IntegersOf(s) ==
  {IF c[1] = "-" THEN 0 - Decimal(c) ELSE Decimal(c) : c \in {d \in Cores(s) : IsLiteral(d)}}

\* The beam size the environment asks for.
WantedBeam(env) ==
  IF "BEAM_SIZE" \notin DOMAIN env THEN NoBeam
  ELSE IF env["BEAM_SIZE"] = <<>> THEN NoBeam
  ELSE IF IntegersOf(env["BEAM_SIZE"]) = {} THEN NoBeam
  ELSE Beam(CHOOSE n \in IntegersOf(env["BEAM_SIZE"]) : TRUE)

\* C13: whatever BEAM_SIZE holds, the process starts; the beam size is unset
\* when BEAM_SIZE is absent, empty or not an integer literal, and is the
\* integer otherwise; every model call under way was given that value.
C13_BeamSize ==
  /\ alive
  /\ BEAM_SIZE = WantedBeam(environ)
  /\ \A r \in Reqs : pc[r] = "calling" => args[r].beam_size = WantedBeam(environ)

\* C13's case: BEAM_SIZE is set and is not an integer, and a model call is
\* under way with the beam size unset.
C13_Witness ==
  /\ "BEAM_SIZE" \in DOMAIN environ
  /\ environ["BEAM_SIZE"] = <<"2", "x">>
  /\ \E r \in Reqs : pc[r] = "calling" /\ args[r].beam_size = NoBeam

\* ------------------------------------------------------------- args
\* The program where the first client sends audio with any query string and
\* the last an empty body.
InitArgs ==
  \E env \in Envs : \E reqs \in [Reqs -> AllRequests] :
    /\ \A r \in Reqs : BodyMissing(reqs[r].body) <=> r = NumReqs
    /\ \A r \in Reqs \ {1} : reqs[r] \in PlainRequests
    /\ Startup(env, reqs, {1, NumReqs})

SpecArgs == InitArgs /\ [][Next]_vars

\* The client sent the query parameter name, and not empty.
Sent(q, name) == name \in DOMAIN q /\ q[name] # ""

\* C16: every model call under way was given a task that is transcribe or
\* translate, and transcribe when the client sent none; the language the
\* client sent, or none when it sent none; and the voice-activity filter on.
C16_ModelArgs ==
  \A r \in Reqs :
    pc[r] = "calling" =>
      /\ args[r].task \in {"transcribe", "translate"}
      /\ ~Sent(request[r].query, "task") => args[r].task = "transcribe"
      /\ args[r].language =
           IF Sent(request[r].query, "language") THEN request[r].query["language"] ELSE None
      /\ args[r].vad_filter

\* ------------------------------------------------------------ files
\* A model that shows what it was given: it reads the file at its path
\* argument and returns the file's content as the first segment, its task as
\* the second, and its language hint (English without one) as the language.
\* It has nothing to return when no file has that path.
EchoOf(content, lang, tsk) ==
  [segments |-> <<content, <<" ", tsk>> >>, language |-> IF lang = None THEN "en" ELSE lang]

EchoOutputs(r) ==
  IF args[r].path \in DOMAIN files
  THEN {EchoOf(files[args[r].path], args[r].language, args[r].task)}
  ELSE {}

\* The program where every client but the last sends audio of its own, with
\* or without a language and a task of its choice, and the last an empty body.
OwnAudio(r) == <<"RIFF", DigitOf(r)>>
FileQueries == {Query(Absent, Absent), Query("xx", "translate")}

InitFiles ==
  \E env \in Envs : \E reqs \in [Reqs -> [body : {EmptyBody} \cup {OwnAudio(r) : r \in Reqs},
                                          query : FileQueries]] :
    /\ \A r \in Reqs : reqs[r].body = IF r = NumReqs THEN EmptyBody ELSE OwnAudio(r)
    /\ reqs[NumReqs].query = Query(Absent, Absent)
    /\ Startup(env, reqs, Reqs)

NextFiles ==
  \/ \E r \in Reqs : transcribe(r)
  \/ \E r \in Reqs : run_transcribe_on(r, EchoOutputs(r))

SpecFiles == InitFiles /\ [][NextFiles]_vars

\* What the echoing model makes of the request r itself.
OwnText(r) ==
  request[r].body \o
    <<" ", IF Sent(request[r].query, "task") THEN request[r].query["task"] ELSE "transcribe">>
OwnLanguage(r) ==
  IF Sent(request[r].query, "language") THEN request[r].query["language"] ELSE "en"

\* The requests that have a temp file.
WithFile == {r \in Reqs : tmp[r] \in {"empty", "full"}}

\* C15: a request is past its model call only when its own worker has ended
\* the call; what it holds of the call, and what it answers with 200, is what
\* the model made of its own body, language and task; a failure of a model
\* call is answered to the request the call was made for; and no two requests
\* have the same temp file.
C15_OwnResult ==
  /\ \A r \in Reqs :
       /\ "release" \in Range(hist[r]) =>
            "model_end" \in Range(hist[r]) \/ "model_raise" \in Range(hist[r])
       /\ pc[r] = "calling" => args[r].path = fname[r]
       /\ pc[r] = "returned" =>
            /\ joined_text(segments[r]) = OwnText(r)
            /\ info[r] = OwnLanguage(r)
       /\ status[r] = 200 =>
            /\ response[r].text = OwnText(r)
            /\ response[r].language = OwnLanguage(r)
            /\ "model_end" \in Range(hist[r])
       /\ "model_raise" \in Range(hist[r]) /\ Done(r) => status[r] = 500
  /\ \A r, q \in WithFile : r # q => fname[r] # fname[q]

\* C15's case: with two workers, one request has been answered with the text
\* and the language of its own call while the call of another, with another
\* body, language and task, has returned and not been resumed.
C15_Witness ==
  /\ MAX_TRANSCRIBE_WORKERS > 1
  /\ \E a, b \in Reqs :
       /\ status[a] = 200
       /\ response[a].language = "xx"
       /\ pc[b] = "returned"
       /\ info[b] = "en"
       /\ response[a].text # joined_text(segments[b])

\* C17: from the moment a request asks for a permit until its text is
\* assembled (while it waits, holds the permit, is in the model call, and
\* while its segments are consumed) its temp file exists and holds its whole
\* body, and the model call under way reads that file.
C17_FileHoldsBody ==
  \A r \in Reqs :
    pc[r] \in {"waiting", "acquired", "calling", "returned", "join"} =>
      /\ fname[r] \in DOMAIN files
      /\ files[fname[r]] = request[r].body
      /\ pc[r] = "calling" => args[r].path = fname[r] /\ EchoOutputs(r) # {}

\* C17's case: a request has segments still to consume after another
\* request has been answered and has deleted its file.
C17_Witness ==
  \E r, q \in Reqs :
    /\ pc[r] = "join" /\ pending[r] > 0
    /\ fname[r] \in DOMAIN files
    /\ status[q] = 200 /\ tmp[q] = "deleted"

==========================================================================
